---- MODULE Spec2Model ----
(***************************************************************************)
(* Model of bot.py, a Telegram bot that relays chat messages to a          *)
(* completion API.  The state is the two module-level dictionaries         *)
(* (chat_histories, system_prompts) and the handler coroutines the asyncio *)
(* event loop is driving.  A coroutine runs without interruption from one  *)
(* await to the next: `running` names the coroutine that holds the loop.   *)
(* The application may start the handler of the next update whenever the   *)
(* loop is idle, so handlers overlap at their awaits; a coroutine that     *)
(* has ended is dropped from `handlers`.  The awaits on Telegram           *)
(* (send_action, reply_text) are taken to return.                          *)
(* Texts are TLA+ strings; Len, \o and SubSeq act on them character by     *)
(* character.                                                              *)
(***************************************************************************)
EXTENDS Integers, Sequences, FiniteSets, TLC

VARIABLES
    chat_histories,   \* dict chat_id -> list of turns            (bot.py:21)
    system_prompts,   \* dict chat_id -> system prompt            (bot.py:22)
    handlers,         \* dict: number of an update -> its unfinished handler coroutine
    updates,          \* number of updates dispatched so far
    clears,           \* number of /clear commands among them
    running,          \* index of the coroutine holding the event loop, 0 when idle
    appended          \* history variable: per chat, every turn appended since
                      \* the last clear of that chat (or since start)

vars == <<chat_histories, system_prompts, handlers, updates, clears, running, appended>>

----------------------------------------------------------------------------
(* Bounds of the model *)

MaxChat == 2        \* conversation identifiers 1..MaxChat
MaxUpdates == 2     \* inbound updates in Spec
MaxRelay == 7       \* inbound updates in SpecRelay
MaxClear == 1       \* /clear commands among them
MaxInFlight == 2    \* unfinished handlers at once in SpecRelay
MaxAppend == 13     \* turns in the logs of SpecStore
MaxAssistant == 1   \* assistant turns among them
MaxInstructed == 8  \* inbound updates in SpecInstructed

(* Program constants *)

HistoryLimit == 12  \* the slice [-12:]
ChunkSize == 3900   \* reply[i:i+3900]

ChatIds == 1..MaxChat

----------------------------------------------------------------------------
(* Python values *)

\* dict with no key
EmptyDict == <<>>

\* d[k] = v
DictSet(d, k, v) == [x \in (DOMAIN d) \cup {k} |-> IF x = k THEN v ELSE d[x]]

\* d.setdefault(k, v)
DictSetDefault(d, k, v) == IF k \in DOMAIN d THEN d ELSE DictSet(d, k, v)

\* d.pop(k, None), and `if k in d: del d[k]`
DictPop(d, k) == [x \in (DOMAIN d) \ {k} |-> d[x]]

\* d.get(k, default)
DictGet(d, k, default) == IF k \in DOMAIN d THEN d[k] ELSE default

\* s[-n:] for n > 0
LastN(s, n) == IF Len(s) <= n THEN s ELSE SubSeq(s, Len(s) - n + 1, Len(s))

Min(a, b) == IF a <= b THEN a ELSE b

\* characters str.strip() removes (the ones the model's texts use)
Whitespace == {" ", "\n", "\t"}

RECURSIVE LStrip(_)
LStrip(s) ==
    IF s = "" THEN s
    ELSE IF SubSeq(s, 1, 1) \in Whitespace THEN LStrip(SubSeq(s, 2, Len(s)))
    ELSE s

RECURSIVE RStrip(_)
RStrip(s) ==
    IF s = "" THEN s
    ELSE IF SubSeq(s, Len(s), Len(s)) \in Whitespace
         THEN RStrip(SubSeq(s, 1, Len(s) - 1))
    ELSE s

\* s.strip()
Strip(s) == RStrip(LStrip(s))

\* " ".join(args)
RECURSIVE Join(_)
Join(args) ==
    IF args = <<>> THEN ""
    ELSE IF Len(args) = 1 THEN args[1]
    ELSE args[1] \o " " \o Join(Tail(args))

\* a text of n characters
RECURSIVE Filler(_)
Filler(n) ==
    IF n = 0 THEN ""
    ELSE LET half == Filler(n \div 2)
         IN  half \o half \o (IF n % 2 = 1 THEN "x" ELSE "")

----------------------------------------------------------------------------
(* helpers of bot.py *)

Turn(role, content) == [role |-> role, content |-> content]

\* add_user_message without the slice of line 33
add_user_message_unbounded(hist, chat_id, text) ==
    LET h0 == DictSetDefault(hist, chat_id, <<>>)
    IN  [h0 EXCEPT ![chat_id] = Append(@, Turn("user", text))]

\* add_user_message with the slice [:12] for [-12:]
add_user_message_oldest(hist, chat_id, text) ==
    LET h0 == DictSetDefault(hist, chat_id, <<>>)
        h1 == [h0 EXCEPT ![chat_id] = Append(@, Turn("user", text))]
    IN  [h1 EXCEPT ![chat_id] = SubSeq(@, 1, Min(Len(@), HistoryLimit))]

add_user_message(hist, chat_id, text) ==
    LET h0 == DictSetDefault(hist, chat_id, <<>>)
        h1 == [h0 EXCEPT ![chat_id] = Append(@, Turn("user", text))]
    IN  [h1 EXCEPT ![chat_id] = LastN(@, HistoryLimit)]

add_assistant_message(hist, chat_id, text) ==
    LET h0 == DictSetDefault(hist, chat_id, <<>>)
        h1 == [h0 EXCEPT ![chat_id] = Append(@, Turn("assistant", text))]
    IN  [h1 EXCEPT ![chat_id] = LastN(@, HistoryLimit)]

\* build_messages leaving the new message out when the history ends with it
build_messages_once(hist, prompts, chat_id, user_text) ==
    LET sys == IF chat_id \in DOMAIN prompts
               THEN << Turn("system", prompts[chat_id]) >>
               ELSE << >>
        history == DictGet(hist, chat_id, <<>>)
    IN  IF history # << >> /\ history[Len(history)] = Turn("user", user_text)
        THEN sys \o history
        ELSE sys \o history \o << Turn("user", user_text) >>

\* build_messages with a system entry also when no prompt is set
build_messages_placeholder(hist, prompts, chat_id, user_text) ==
    << Turn("system", DictGet(prompts, chat_id, "")) >>
        \o DictGet(hist, chat_id, <<>>) \o << Turn("user", user_text) >>

build_messages(hist, prompts, chat_id, user_text) ==
    LET sys == IF chat_id \in DOMAIN prompts
               THEN << Turn("system", prompts[chat_id]) >>
               ELSE << >>
        history == DictGet(hist, chat_id, <<>>)
    IN  sys \o history \o << Turn("user", user_text) >>

\* the chunk list made of whole chunks only: range(0, len(reply) - 3899, 3900)
RECURSIVE ChunksFrom_whole(_, _)
ChunksFrom_whole(reply, i) ==
    IF i + ChunkSize > Len(reply) THEN << >>
    ELSE << SubSeq(reply, i + 1, i + ChunkSize) >>
         \o ChunksFrom_whole(reply, i + ChunkSize)

\* build_messages looking the history up with setdefault(chat_id, [])
build_messages_setdefault(hist, prompts, chat_id) ==
    << DictSetDefault(hist, chat_id, << >>), prompts >>

\* The two dicts as build_messages(chat_id, user_text) leaves them:
\* `chat_id in system_prompts`, system_prompts[chat_id] and
\* chat_histories.get(chat_id, []) add no key, and extend() and append()
\* change the new list msgs, never the list of the history.
build_messages_store(hist, prompts, chat_id) == << hist, prompts >>

\* [reply[i:i+3900] for i in range(0, len(reply), 3900)]
RECURSIVE ChunksFrom(_, _)
ChunksFrom(reply, i) ==
    IF i >= Len(reply) THEN << >>
    ELSE << SubSeq(reply, i + 1, Min(i + ChunkSize, Len(reply))) >>
         \o ChunksFrom(reply, i + ChunkSize)

\* the chunk list with an empty reply sent as one empty message
Chunks_placeholder(reply) ==
    IF reply = "" THEN << "" >> ELSE ChunksFrom(reply, 0)

Chunks(reply) == ChunksFrom(reply, 0)

----------------------------------------------------------------------------
(* fixed texts of bot.py; the Bengali letters of two of them are written   *)
(* in Latin letters                                                        *)

Greeting == "Salam! Ami ChatGPT-bot. /help dekho commands gula jannar jonno."
HelpText == "/start - greeting\n/help - this help\n/setprompt <text> - set system prompt for this chat (e.g. 'You are a helpful assistant...')\n/clearprompt - remove system prompt\n/clear - clear conversation history\n\nJust send a message to chat with GPT."
UsageText == "Use: /setprompt <your instruction>"
PromptSetText == "System prompt set for this chat."
PromptRemovedText == "System prompt removed (if any)."
HistoryClearedText == "Conversation history cleared."
FailureTemplate == "Duhkhito, server error holo: "

----------------------------------------------------------------------------
(* inputs *)

Texts == {"hello"}

ArgLists == { << >>, << "be", "brief" >>, << "terse" >> }

LongReply == Filler(8000)

\* What the completion call does: it returns a response with a content
\* string, returns a response whose content is None (so .strip() raises
\* AttributeError), or raises.
Outcomes ==
    { [kind |-> "content", text |-> r] : r \in {" hi there\n", ""} }
    \cup { [kind |-> "none", text |-> "'NoneType' object has no attribute 'strip'"] }
    \cup { [kind |-> "raise", text |-> "Connection error."] }

\* the lengths of content around the chunk size: one full chunk, one
\* character more, and the 8000 characters of LongReply
ReplyLengths == { ChunkSize, ChunkSize + 1, Len(LongReply) }

\* responses of these lengths, a response of white space only, and a call
\* that raises
LongOutcomes ==
    { [kind |-> "content", text |-> Filler(n)] : n \in ReplyLengths }
    \cup { [kind |-> "content", text |-> " \n"] }
    \cup { [kind |-> "raise", text |-> "Connection error."] }

\* the k-th update of a long conversation, and the response to it
Numbered(prefix, k) == prefix \o ToString(k)

NoOutcome == [kind |-> "pending", text |-> ""]

----------------------------------------------------------------------------
(* handler coroutines *)

\* A coroutine as dispatched: nothing sent, nothing called.  `before`,
\* `instructed` and `touched` are history variables: the chat's history when
\* the handler was entered, whether the chat had a system prompt then, and
\* whether another handler has changed the chat's store since.
Handler(name, chat_id, args, user_text, pc) ==
    [ name |-> name, chat_id |-> chat_id, args |-> args, user_text |-> user_text,
      pc |-> pc, messages |-> << >>, reply |-> "", chunks |-> << >>,
      sent |-> << >>, calls |-> 0, outcome |-> NoOutcome,
      before |-> DictGet(chat_histories, chat_id, <<>>),
      instructed |-> chat_id \in DOMAIN system_prompts, touched |-> FALSE ]

\* update.message.reply_text(text)
Replied(h, text) == [h EXCEPT !.sent = Append(@, text)]

\* the other coroutines of the same chat see their chat's store changed
Touch(hs, k, chat_id) ==
    [ j \in DOMAIN hs |->
        IF j # k /\ hs[j].chat_id = chat_id
        THEN [hs[j] EXCEPT !.touched = TRUE]
        ELSE hs[j] ]

InFlight == Cardinality(DOMAIN handlers)

Init ==
    /\ chat_histories = EmptyDict
    /\ system_prompts = EmptyDict
    /\ handlers = EmptyDict
    /\ updates = 0
    /\ clears = 0
    /\ running = 0
    /\ appended = [c \in ChatIds |-> << >>]

\* the application starts the handler h of the next update
Dispatch(hs, h) ==
    /\ running = 0
    /\ handlers' = DictSet(hs, updates + 1, h)
    /\ updates' = updates + 1
    /\ clears' = IF h.name = "clear_history" THEN clears + 1 ELSE clears
    /\ UNCHANGED running

\* async def start: the greeting is sent, the coroutine awaits the send
start(chat_id) ==
    /\ Dispatch(handlers, Replied(Handler("start", chat_id, << >>, "", "await"), Greeting))
    /\ UNCHANGED <<chat_histories, system_prompts, appended>>

help_cmd(chat_id) ==
    /\ Dispatch(handlers, Replied(Handler("help_cmd", chat_id, << >>, "", "await"), HelpText))
    /\ UNCHANGED <<chat_histories, system_prompts, appended>>

\* setprompt dropping the prompt when it is given no argument
setprompt_resets(chat_id, args) ==
    /\ IF args = << >>
       THEN /\ system_prompts' = DictPop(system_prompts, chat_id)
            /\ Dispatch(handlers,
                    Replied(Handler("setprompt", chat_id, args, "", "await"), UsageText))
       ELSE /\ system_prompts' = DictSet(system_prompts, chat_id, Join(args))
            /\ Dispatch(Touch(handlers, 0, chat_id),
                    Replied(Handler("setprompt", chat_id, args, "", "await"), PromptSetText))
    /\ UNCHANGED <<chat_histories, appended>>

setprompt(chat_id, args) ==
    /\ IF args = << >>
       THEN /\ Dispatch(handlers,
                    Replied(Handler("setprompt", chat_id, args, "", "await"), UsageText))
            /\ UNCHANGED system_prompts
       ELSE /\ system_prompts' = DictSet(system_prompts, chat_id, Join(args))
            /\ Dispatch(Touch(handlers, 0, chat_id),
                    Replied(Handler("setprompt", chat_id, args, "", "await"), PromptSetText))
    /\ UNCHANGED <<chat_histories, appended>>

\* clearprompt blanking the prompt for deleting it
clearprompt_blank(chat_id) ==
    /\ system_prompts' = DictSet(system_prompts, chat_id, "")
    /\ Dispatch(Touch(handlers, 0, chat_id),
            Replied(Handler("clearprompt", chat_id, << >>, "", "await"), PromptRemovedText))
    /\ UNCHANGED <<chat_histories, appended>>

clearprompt(chat_id) ==
    /\ system_prompts' = DictPop(system_prompts, chat_id)
    /\ Dispatch(Touch(handlers, 0, chat_id),
            Replied(Handler("clearprompt", chat_id, << >>, "", "await"), PromptRemovedText))
    /\ UNCHANGED <<chat_histories, appended>>

\* clear_history forgetting the system prompt with the history
clear_history_prompt(chat_id) ==
    /\ chat_histories' = DictPop(chat_histories, chat_id)
    /\ system_prompts' = DictPop(system_prompts, chat_id)
    /\ appended' = [appended EXCEPT ![chat_id] = << >>]
    /\ Dispatch(Touch(handlers, 0, chat_id),
            Replied(Handler("clear_history", chat_id, << >>, "", "await"), HistoryClearedText))

\* clear_history with chat_histories.clear()
clear_history_all(chat_id) ==
    /\ chat_histories' = EmptyDict
    /\ appended' = [appended EXCEPT ![chat_id] = << >>]
    /\ Dispatch(Touch(handlers, 0, chat_id),
            Replied(Handler("clear_history", chat_id, << >>, "", "await"), HistoryClearedText))
    /\ UNCHANGED system_prompts

clear_history(chat_id) ==
    /\ chat_histories' = DictPop(chat_histories, chat_id)
    /\ appended' = [appended EXCEPT ![chat_id] = << >>]
    /\ Dispatch(Touch(handlers, 0, chat_id),
            Replied(Handler("clear_history", chat_id, << >>, "", "await"), HistoryClearedText))
    /\ UNCHANGED system_prompts

\* a command handler's last await returns and the coroutine ends
Return(k) ==
    /\ running = 0
    /\ handlers[k].pc = "await"
    /\ handlers' = DictPop(handlers, k)
    /\ UNCHANGED <<chat_histories, system_prompts, updates, clears, running, appended>>

\* async def handle_message, up to `await ...send_action("typing")`
handle_message(chat_id, user_text) ==
    /\ Dispatch(handlers, Handler("handle_message", chat_id, << >>, user_text, "typing"))
    /\ UNCHANGED <<chat_histories, system_prompts, appended>>

\* the await returns; add_user_message(chat_id, user_text)
RecordUser(k) ==
    /\ running = 0
    /\ handlers[k].pc = "typing"
    /\ LET h == handlers[k]
       IN  /\ chat_histories' = add_user_message(chat_histories, h.chat_id, h.user_text)
           /\ appended' = [appended EXCEPT
                  ![h.chat_id] = Append(@, Turn("user", h.user_text))]
           /\ handlers' = [Touch(handlers, k, h.chat_id) EXCEPT ![k].pc = "build"]
    /\ running' = k
    /\ UNCHANGED <<system_prompts, updates, clears>>

\* messages = build_messages(chat_id, user_text)
BuildRequest(k) ==
    /\ running = k
    /\ handlers[k].pc = "build"
    /\ LET h == handlers[k]
       IN  handlers' = [handlers EXCEPT
               ![k].messages = build_messages(chat_histories, system_prompts,
                                              h.chat_id, h.user_text),
               ![k].pc = "call"]
    /\ UNCHANGED <<chat_histories, system_prompts, updates, clears, running, appended>>

\* ReplyOf without .strip()
ReplyOf_unstripped(outcome) ==
    IF outcome.kind = "content"
    THEN outcome.text
    ELSE FailureTemplate \o outcome.text

\* ReplyOf with a failure text that leaves the error out
ReplyOf_generic(outcome) ==
    IF outcome.kind = "content"
    THEN Strip(outcome.text)
    ELSE FailureTemplate

\* the reply the try statement leaves: the stripped content, or the failure
\* text when create() or the extraction raised
ReplyOf(outcome) ==
    IF outcome.kind = "content"
    THEN Strip(outcome.text)
    ELSE FailureTemplate \o outcome.text

\* Complete with `await` on an asynchronous client: the event loop is free
\* while the call is out
Complete_async(k, outcome) ==
    /\ running = k
    /\ handlers[k].pc = "call"
    /\ handlers' = [handlers EXCEPT
           ![k].calls = @ + 1,
           ![k].outcome = outcome,
           ![k].reply = ReplyOf(outcome),
           ![k].pc = "save"]
    /\ running' = 0
    /\ UNCHANGED <<chat_histories, system_prompts, updates, clears, appended>>

\* Complete with one more attempt after a failed call
Complete_retry(k, outcome) ==
    /\ running = k
    /\ handlers[k].pc = "call"
    /\ handlers' = [handlers EXCEPT
           ![k].calls = IF outcome.kind = "content" THEN @ + 1 ELSE @ + 2,
           ![k].outcome = outcome,
           ![k].reply = ReplyOf(outcome),
           ![k].pc = "save"]
    /\ UNCHANGED <<chat_histories, system_prompts, updates, clears, running, appended>>

\* try: resp = create(...); reply = ...content.strip()  except Exception as e: ...
\* create() is a blocking call: the coroutine keeps the event loop.
Complete(k, outcome) ==
    /\ running = k
    /\ handlers[k].pc = "call"
    /\ handlers' = [handlers EXCEPT
           ![k].calls = @ + 1,
           ![k].outcome = outcome,
           ![k].reply = ReplyOf(outcome),
           ![k].pc = "save"]
    /\ UNCHANGED <<chat_histories, system_prompts, updates, clears, running, appended>>

\* RecordReply writing back the list the handler saw when it was entered
RecordReply_stale(k) ==
    /\ running = k
    /\ handlers[k].pc = "save"
    /\ LET h == handlers[k]
           seen == DictSet(chat_histories, h.chat_id,
                           LastN(Append(h.before, Turn("user", h.user_text)), HistoryLimit))
       IN  /\ chat_histories' = add_assistant_message(seen, h.chat_id, h.reply)
           /\ appended' = [appended EXCEPT
                  ![h.chat_id] = Append(@, Turn("assistant", h.reply))]
           /\ handlers' = [Touch(handlers, k, h.chat_id) EXCEPT ![k].pc = "split"]
    /\ UNCHANGED <<system_prompts, updates, clears, running>>

\* add_assistant_message(chat_id, reply)
RecordReply(k) ==
    /\ running = k
    /\ handlers[k].pc = "save"
    /\ LET h == handlers[k]
       IN  /\ chat_histories' = add_assistant_message(chat_histories, h.chat_id, h.reply)
           /\ appended' = [appended EXCEPT
                  ![h.chat_id] = Append(@, Turn("assistant", h.reply))]
           /\ handlers' = [Touch(handlers, k, h.chat_id) EXCEPT ![k].pc = "split"]
    /\ UNCHANGED <<system_prompts, updates, clears, running>>

\* the coroutine k after one turn of `for chunk in cs: await reply_text(chunk)`:
\* the next chunk is sent and awaited, or the loop and the coroutine end
SendNext(k, cs) ==
    IF cs = << >>
    THEN DictPop(handlers, k)
    ELSE [handlers EXCEPT ![k].sent = Append(@, Head(cs)),
                          ![k].chunks = Tail(cs),
                          ![k].pc = "reply"]

\* the chunk list is built and the loop entered
SplitReply(k) ==
    /\ running = k
    /\ handlers[k].pc = "split"
    /\ handlers' = SendNext(k, Chunks(handlers[k].reply))
    /\ running' = 0
    /\ UNCHANGED <<chat_histories, system_prompts, updates, clears, appended>>

\* `await update.message.reply_text(chunk)` returns; the loop goes on
NextChunk(k) ==
    /\ running = 0
    /\ handlers[k].pc = "reply"
    /\ handlers' = SendNext(k, handlers[k].chunks)
    /\ UNCHANGED <<chat_histories, system_prompts, updates, clears, running, appended>>

Next ==
    \/ \E c \in ChatIds : updates < MaxUpdates /\ start(c)
    \/ \E c \in ChatIds : updates < MaxUpdates /\ help_cmd(c)
    \/ \E c \in ChatIds, a \in ArgLists : updates < MaxUpdates /\ setprompt(c, a)
    \/ \E c \in ChatIds : updates < MaxUpdates /\ clearprompt(c)
    \/ \E c \in ChatIds : updates < MaxUpdates /\ clear_history(c)
    \/ \E c \in ChatIds, t \in Texts : updates < MaxUpdates /\ handle_message(c, t)
    \/ \E k \in DOMAIN handlers : Return(k)
    \/ \E k \in DOMAIN handlers : RecordUser(k)
    \/ \E k \in DOMAIN handlers : BuildRequest(k)
    \/ \E k \in DOMAIN handlers, o \in Outcomes : Complete(k, o)
    \/ \E k \in DOMAIN handlers : RecordReply(k)
    \/ \E k \in DOMAIN handlers : SplitReply(k)
    \/ \E k \in DOMAIN handlers : NextChunk(k)

Spec == Init /\ [][Next]_vars

----------------------------------------------------------------------------
(* A long conversation in one chat: messages m1, m2, ... answered r1, r2,  *)
(* ..., and /clear, with at most MaxInFlight handlers unfinished at once.  *)

RelayChat == CHOOSE c \in ChatIds : TRUE

NextRelay ==
    \/ /\ updates < MaxRelay /\ InFlight < MaxInFlight
       /\ handle_message(RelayChat, Numbered("m", updates + 1))
    \/ /\ updates < MaxRelay /\ InFlight < MaxInFlight /\ clears < MaxClear
       /\ clear_history(RelayChat)
    \/ \E k \in DOMAIN handlers : Return(k)
    \/ \E k \in DOMAIN handlers : RecordUser(k)
    \/ \E k \in DOMAIN handlers : BuildRequest(k)
    \/ \E k \in DOMAIN handlers :
          Complete(k, [kind |-> "content", text |-> Numbered("r", k)])
    \/ \E k \in DOMAIN handlers : RecordReply(k)
    \/ \E k \in DOMAIN handlers : SplitReply(k)
    \/ \E k \in DOMAIN handlers : NextChunk(k)

SpecRelay == Init /\ [][NextRelay]_vars

----------------------------------------------------------------------------
(* A long conversation in one chat that may begin with /setprompt.         *)

NextInstructed ==
    \/ updates = 0 /\ setprompt(RelayChat, << "terse" >>)
    \/ /\ updates < MaxInstructed /\ InFlight < MaxInFlight
       /\ handle_message(RelayChat, Numbered("m", updates + 1))
    \/ \E k \in DOMAIN handlers : Return(k)
    \/ \E k \in DOMAIN handlers : RecordUser(k)
    \/ \E k \in DOMAIN handlers : BuildRequest(k)
    \/ \E k \in DOMAIN handlers :
          Complete(k, [kind |-> "content", text |-> Numbered("r", k)])
    \/ \E k \in DOMAIN handlers : RecordReply(k)
    \/ \E k \in DOMAIN handlers : SplitReply(k)
    \/ \E k \in DOMAIN handlers : NextChunk(k)

SpecInstructed == Init /\ [][NextInstructed]_vars

----------------------------------------------------------------------------
(* Messages whose answer is too long for one Telegram message.             *)

NextLong ==
    \/ \E c \in ChatIds, t \in Texts : updates < MaxUpdates /\ handle_message(c, t)
    \/ \E k \in DOMAIN handlers : RecordUser(k)
    \/ \E k \in DOMAIN handlers : BuildRequest(k)
    \/ \E k \in DOMAIN handlers, o \in LongOutcomes : Complete(k, o)
    \/ \E k \in DOMAIN handlers : RecordReply(k)
    \/ \E k \in DOMAIN handlers : SplitReply(k)
    \/ \E k \in DOMAIN handlers : NextChunk(k)

SpecLong == Init /\ [][NextLong]_vars

----------------------------------------------------------------------------
(* The store helpers applied on their own, as a test of the store does:    *)
(* the n-th append to a chat since its last clear has the text mn or rn.   *)

Logged(c) == Len(appended[c])

\* the turns of all logs, and the assistant turns among them
TotalLogged ==
    Cardinality(UNION { { <<c, i>> : i \in DOMAIN appended[c] } : c \in ChatIds })

TotalAssistant ==
    Cardinality(UNION { { <<c, i>> : i \in { j \in DOMAIN appended[c] :
                                              appended[c][j].role = "assistant" } }
                        : c \in ChatIds })

StoreAddUser(c) ==
    /\ chat_histories' =
           add_user_message(chat_histories, c, Numbered("m", Logged(c) + 1))
    /\ appended' = [appended EXCEPT
           ![c] = Append(@, Turn("user", Numbered("m", Logged(c) + 1)))]
    /\ UNCHANGED <<system_prompts, handlers, updates, clears, running>>

StoreAddAssistant(c) ==
    /\ chat_histories' =
           add_assistant_message(chat_histories, c, Numbered("r", Logged(c) + 1))
    /\ appended' = [appended EXCEPT
           ![c] = Append(@, Turn("assistant", Numbered("r", Logged(c) + 1)))]
    /\ UNCHANGED <<system_prompts, handlers, updates, clears, running>>

\* chat_histories.pop(chat_id, None)
StoreClear(c) ==
    /\ chat_histories' = DictPop(chat_histories, c)
    /\ appended' = [appended EXCEPT ![c] = << >>]
    /\ UNCHANGED <<system_prompts, handlers, updates, clears, running>>

NextStore ==
    \/ \E c \in ChatIds : TotalLogged < MaxAppend /\ StoreAddUser(c)
    \/ \E c \in ChatIds :
          /\ TotalLogged < MaxAppend
          /\ TotalAssistant < MaxAssistant
          /\ StoreAddAssistant(c)
    \/ \E c \in ChatIds : StoreClear(c)

SpecStore == Init /\ [][NextStore]_vars

----------------------------------------------------------------------------
(* build_messages called on its own, for a chat of the store or for another *)
(* one, in the stores a short conversation leaves.                          *)

Histories ==
    { << Turn("user", "hello") >>,
      << Turn("user", "hello"), Turn("assistant", "hi there") >> }

Prompts == { Join(a) : a \in ArgLists \ { << >> } }

\* the dicts with keys among `keys` and values among `values`
Dicts(keys, values) == UNION { [ks -> values] : ks \in SUBSET keys }

InitAssemble ==
    /\ chat_histories \in Dicts(ChatIds, Histories)
    /\ system_prompts \in Dicts(ChatIds, Prompts)
    /\ handlers = EmptyDict
    /\ updates = 0
    /\ clears = 0
    /\ running = 0
    /\ appended = [c \in ChatIds |-> DictGet(chat_histories, c, << >>)]

\* messages = build_messages(chat_id, user_text); the caller is kept as the
\* handler 1 with the list returned
Assemble(chat_id, user_text) ==
    LET after == build_messages_store(chat_histories, system_prompts, chat_id)
        caller == Handler("build_messages", chat_id, << >>, user_text, "done")
    IN  /\ chat_histories' = after[1]
        /\ system_prompts' = after[2]
        /\ handlers' = DictSet(EmptyDict, 1,
               [caller EXCEPT !.messages = build_messages(chat_histories,
                                               system_prompts, chat_id, user_text)])
        /\ UNCHANGED <<updates, clears, running, appended>>

NextAssemble == \E c \in ChatIds, t \in Texts : Assemble(c, t)

SpecAssemble == InitAssemble /\ [][NextAssemble]_vars

----------------------------------------------------------------------------
(* Claims *)

History(c) == DictGet(chat_histories, c, << >>)

\* C1: in every reachable state the stored history of every conversation
\* identifier has at most 12 entries, whatever appends, clears and
\* interleaved handlers came before.
C1_HistoryBounded ==
    \A c \in ChatIds : Len(History(c)) <= 12

\* a full history that has already lost a turn, with two handlers of that
\* conversation unfinished at once
C1_Witness ==
    \E c \in ChatIds :
        /\ Len(History(c)) = 12
        /\ Len(appended[c]) > 12
        /\ Cardinality({ k \in DOMAIN handlers : handlers[k].chat_id = c }) >= 2

\* the turn an append step adds to the log of c
NewTurn(c) == appended[c]'[Len(appended[c]') ]

C2_FifoStep ==
    \A c \in ChatIds :
        Len(appended[c]') = Len(appended[c]) + 1 =>
            chat_histories'[c] =
                IF Len(History(c)) < 12
                THEN History(c) \o << NewTurn(c) >>
                ELSE [i \in 1..11 |-> History(c)[i + 1]] \o << NewTurn(c) >>

C2_Thirteen ==
    \A c \in ChatIds :
        appended[c] = [i \in 1..13 |-> Turn("user", Numbered("m", i))] =>
            History(c) = [i \in 1..12 |-> Turn("user", Numbered("m", i + 1))]

\* C2: truncation is FIFO.  An append to a history of fewer than 12 entries
\* yields the history followed by the new turn; an append to a history of
\* 12 entries yields its entries 2..12 followed by the new turn.  So the
\* user appends m1..m13 to a fresh identifier leave m2..m13 in order.
C2_Fifo == [][C2_FifoStep]_vars /\ []C2_Thirteen

\* thirteen user appends to a fresh identifier have been made
C2_Witness ==
    \E c \in ChatIds :
        appended[c] = [i \in 1..13 |-> Turn("user", Numbered("m", i))]

\* the last min(12, n) of the n entries of s
LastTwelve(s) ==
    LET n == Len(s)
        m == IF n < 12 THEN n ELSE 12
    IN  [i \in 1..m |-> s[n - m + i]]

\* C7: in every reachable state the history of a conversation is the last
\* min(12, n) of the n turns appended for it since its last clear, in the
\* order the appends were executed, also with several handlers of that
\* conversation in flight.
C7_CallOrder ==
    \A c \in ChatIds :
        History(c) = LastTwelve(appended[c])

\* a handler that another handler of its conversation has overtaken is
\* between its two appends, and the conversation has lost a turn
C7_Witness ==
    \E k \in DOMAIN handlers :
        /\ handlers[k].touched
        /\ handlers[k].pc = "save"
        /\ Len(appended[handlers[k].chat_id]) > 12

\* msgs is what C3 says build_messages(c, t) returns in the current store
C3_Assembled(msgs, c, t) ==
    LET off == IF c \in DOMAIN system_prompts THEN 1 ELSE 0
    IN  /\ Len(msgs) = off + Len(History(c)) + 1
        /\ off = 1 => msgs[1] = [role |-> "system", content |-> system_prompts[c]]
        /\ \A i \in 1..Len(History(c)) : msgs[off + i] = History(c)[i]
        /\ msgs[Len(msgs)] = [role |-> "user", content |-> t]
        /\ Cardinality({ i \in 1..Len(msgs) : msgs[i].role = "system" }) = off

\* C3: build_messages(id, t) returns one system entry with the instruction
\* of id exactly when one is stored, then every stored turn of id in stored
\* order with its role, then {role user, content t} as the last element.
\* It holds of the function in every reachable store and of the list a
\* handler is about to send.
C3_Assembly ==
    /\ \A c \in ChatIds, t \in Texts \cup {"", "bye"} :
            C3_Assembled(build_messages(chat_histories, system_prompts, c, t), c, t)
    /\ \A k \in DOMAIN handlers :
            handlers[k].pc = "call" =>
                C3_Assembled(handlers[k].messages, handlers[k].chat_id,
                             handlers[k].user_text)

\* a request has been assembled for a chat with an instruction and a history
C3_Witness ==
    \E k \in DOMAIN handlers :
        /\ handlers[k].pc = "call"
        /\ handlers[k].chat_id \in DOMAIN system_prompts
        /\ Len(handlers[k].messages) >= 3

RECURSIVE Concat(_)
Concat(texts) ==
    IF texts = << >> THEN "" ELSE Head(texts) \o Concat(Tail(texts))

\* cs are the chunks of the text s: consecutive pieces of 3900 characters,
\* the last one shorter when the length is no multiple of 3900
IsChunking(cs, s) ==
    /\ Concat(cs) = s
    /\ \A i \in 1..Len(cs) : Len(cs[i]) >= 1 /\ Len(cs[i]) <= 3900
    /\ \A i \in 1..(Len(cs) - 1) : Len(cs[i]) = 3900

IsRelay(h) == h.name = "handle_message"

UserTurn(h) == [role |-> "user", content |-> h.user_text]

\* the assistant turn of a call that returned the text r: {assistant, trim(r)}
TrimmedTurn(h) == [role |-> "assistant", content |-> Strip(h.outcome.text)]

C4_During ==
    \A k \in DOMAIN handlers :
        LET h == handlers[k]
        IN  (IsRelay(h) /\ ~h.touched) =>
              /\ h.pc \in {"build", "call"} =>
                    /\ h.calls = 0
                    /\ History(h.chat_id) = LastTwelve(h.before \o << UserTurn(h) >>)
              /\ h.pc = "save" =>
                    /\ h.calls = 1
                    /\ History(h.chat_id) = LastTwelve(h.before \o << UserTurn(h) >>)
              /\ (h.pc \in {"split", "reply"} /\ h.outcome.kind = "content") =>
                    History(h.chat_id) =
                        LastTwelve(h.before \o << UserTurn(h), TrimmedTurn(h) >>)
              /\ (h.pc = "reply" /\ h.outcome.kind = "content") =>
                    IsChunking(h.sent \o h.chunks, Strip(h.outcome.text))
              /\ ( /\ h.pc = "reply" /\ h.outcome.kind = "content"
                   /\ h.before = << >> /\ h.user_text = "hello"
                   /\ Strip(h.outcome.text) = "hi there" ) =>
                    /\ History(h.chat_id) =
                           << [role |-> "user", content |-> "hello"],
                              [role |-> "assistant", content |-> "hi there"] >>
                    /\ h.sent \o h.chunks = << "hi there" >>

C4_AtEnd ==
    \A k \in (DOMAIN handlers) \ (DOMAIN handlers') :
        LET h == handlers[k]
        IN  (IsRelay(h) /\ h.outcome.kind = "content") =>
              /\ IsChunking(h.sent, Strip(h.outcome.text))
              /\ ~h.touched =>
                    DictGet(chat_histories', h.chat_id, << >>) =
                        LastTwelve(h.before \o << UserTurn(h), TrimmedTurn(h) >>)

\* C4: a handle_message(id, t) whose call returns r, with no other
\* operation on id meanwhile, leaves the last 12 entries of (history
\* before) + [{user, t}, {assistant, trim(r)}]; the user turn is recorded
\* before the call and the assistant turn after it; the chunks sent are
\* the chunks of trim(r).  "hello" answered "hi there" from an empty
\* history gives [{user, hello}, {assistant, hi there}] and ["hi there"].
C4_Relay == []C4_During /\ [][C4_AtEnd]_vars

\* "hello" from an empty history has been answered "hi there" and sent
C4_Witness ==
    \E k \in DOMAIN handlers :
        /\ IsRelay(handlers[k]) /\ ~handlers[k].touched
        /\ handlers[k].pc = "reply"
        /\ handlers[k].before = << >>
        /\ handlers[k].user_text = "hello"
        /\ handlers[k].outcome.kind = "content"
        /\ Strip(handlers[k].outcome.text) = "hi there"

Failed(h) == h.outcome.kind \in {"none", "raise"}

\* the failure reply: the fixed template with the error text appended
FailureReply(h) == FailureTemplate \o h.outcome.text

C5_During ==
    \A k \in DOMAIN handlers :
        LET h == handlers[k]
        IN  (IsRelay(h) /\ Failed(h)) =>
              /\ h.reply = FailureReply(h)
              /\ h.pc \in {"save", "split", "reply"}
              /\ h.pc = "save" =>
                    appended[h.chat_id][Len(appended[h.chat_id])] = UserTurn(h)
              /\ h.pc = "reply" => Concat(h.sent \o h.chunks) = FailureReply(h)

C5_Step ==
    \A k \in DOMAIN handlers :
        LET h == handlers[k]
            failure == [role |-> "assistant", content |-> FailureReply(h)]
        IN  /\ (IsRelay(h) /\ h.pc = "call" /\ k \in DOMAIN handlers'
                  /\ handlers'[k].pc # "call") =>
                    handlers'[k].pc = "save"
            /\ (IsRelay(h) /\ h.pc = "call") => k \in DOMAIN handlers'
            /\ (IsRelay(h) /\ Failed(h) /\ h.pc = "save"
                  /\ k \in DOMAIN handlers' /\ handlers'[k].pc # "save") =>
                    /\ appended[h.chat_id]' = Append(appended[h.chat_id], failure)
                    /\ chat_histories'[h.chat_id] =
                           LastTwelve(Append(History(h.chat_id), failure))
            /\ (IsRelay(h) /\ Failed(h) /\ h.pc = "save") => k \in DOMAIN handlers'
            /\ (IsRelay(h) /\ Failed(h) /\ k \notin DOMAIN handlers') =>
                    /\ h.sent # << >>
                    /\ Concat(h.sent) = FailureReply(h)

\* C5: when the completion call fails the handler goes on: the reply is
\* the failure template with the error text appended, the conversation
\* gains exactly one assistant turn with that text after the recorded user
\* turn, and that text is what is sent.
C5_Failure == []C5_During /\ [][C5_Step]_vars

\* a failure reply has been recorded and sent
C5_Witness ==
    \E k \in DOMAIN handlers :
        /\ Failed(handlers[k])
        /\ handlers[k].pc = "reply"
        /\ handlers[k].sent = << FailureReply(handlers[k]) >>
        /\ History(handlers[k].chat_id)[Len(History(handlers[k].chat_id))].content
               = FailureReply(handlers[k])

C6_During ==
    \A k \in DOMAIN handlers :
        LET h == handlers[k]
        IN  IF IsRelay(h)
            THEN h.calls = IF h.pc \in {"typing", "build", "call"} THEN 0 ELSE 1
            ELSE h.calls = 0

C6_AtEnd ==
    \A k \in (DOMAIN handlers) \ (DOMAIN handlers') :
        handlers[k].calls = IF IsRelay(handlers[k]) THEN 1 ELSE 0

Dispatching(name) ==
    /\ updates' = updates + 1
    /\ handlers'[updates'].name = name

RECURSIVE SpaceJoined(_)
SpaceJoined(args) ==
    IF Len(args) = 1 THEN args[1]
    ELSE SpaceJoined(SubSeq(args, 1, Len(args) - 1)) \o " " \o args[Len(args)]

C8_Step ==
    Dispatching("setprompt") =>
        LET h == handlers'[updates']
        IN  /\ h.args = << >> =>
                  /\ system_prompts' = system_prompts
                  /\ chat_histories' = chat_histories
                  /\ h.sent = << "Use: /setprompt <your instruction>" >>
            /\ h.args # << >> =>
                  /\ h.chat_id \in DOMAIN system_prompts'
                  /\ system_prompts'[h.chat_id] = SpaceJoined(h.args)
                  /\ h.args = << "be", "brief" >> =>
                        system_prompts'[h.chat_id] = "be brief"

\* C8: /setprompt with no argument leaves histories and instructions as
\* they are and replies with the usage message; /setprompt with arguments
\* stores their space-joined text as the instruction of the chat, over any
\* previous one.
C8_SetPrompt == [][C8_Step]_vars

\* /setprompt without argument has been answered in a chat that had an
\* instruction, and has it still
C8_Witness ==
    \E k \in DOMAIN handlers :
        /\ handlers[k].name = "setprompt"
        /\ handlers[k].args = << >>
        /\ handlers[k].instructed
        /\ handlers[k].chat_id \in DOMAIN system_prompts

SystemEntries(msgs) == { i \in 1..Len(msgs) : msgs[i].role = "system" }

C9_Step ==
    /\ Dispatching("clear_history") =>
          LET c == handlers'[updates'].chat_id
          IN  /\ DictGet(chat_histories', c, << >>) = << >>
              /\ c \notin DOMAIN chat_histories'
              /\ c \notin DOMAIN chat_histories => chat_histories' = chat_histories
    /\ Dispatching("clearprompt") =>
          LET c == handlers'[updates'].chat_id
          IN  /\ \A t \in Texts :
                    SystemEntries(build_messages(chat_histories', system_prompts', c, t))
                        = {}
              /\ c \notin DOMAIN system_prompts'
              /\ c \notin DOMAIN system_prompts => system_prompts' = system_prompts

C9_Total ==
    \A c \in ChatIds :
        running = 0 =>
            /\ ENABLED clear_history(c)
            /\ ENABLED clearprompt(c)

\* C9: right after /clear the history of the chat is empty, and right
\* after /clearprompt the assembled list has no system entry; both work
\* when nothing is stored, and a second application changes nothing.
C9_Clears == [][C9_Step]_vars /\ []C9_Total

\* /clearprompt has just removed an instruction
C9_Witness ==
    \E k \in DOMAIN handlers :
        /\ handlers[k].name = "clearprompt"
        /\ handlers[k].instructed
        /\ handlers[k].chat_id \notin DOMAIN system_prompts

\* the chat of the handler that takes the step
ActorChats ==
    IF updates' # updates THEN { handlers'[updates'].chat_id }
    ELSE IF running' # 0 THEN { handlers'[running'].chat_id }
    ELSE IF running # 0 THEN { handlers[running].chat_id }
    ELSE { }

\* what is stored for the chat b: its history and its instruction, if any
Stored(hist, prompts, b) ==
    << b \in DOMAIN hist, DictGet(hist, b, << >>),
       b \in DOMAIN prompts, DictGet(prompts, b, "") >>

C10_Step ==
    \A b \in ChatIds :
        Stored(chat_histories', system_prompts', b)
            # Stored(chat_histories, system_prompts, b)
        => b \in ActorChats

\* the dict d without the keys of the other chats
Only(d, a) == [x \in (DOMAIN d) \cap {a} |-> d[x]]

C10_Assembled ==
    /\ \A a \in ChatIds, t \in Texts :
            build_messages(chat_histories, system_prompts, a, t)
                = build_messages(Only(chat_histories, a), Only(system_prompts, a), a, t)
    /\ \A k \in DOMAIN handlers :
            handlers[k].pc = "call" =>
                handlers[k].messages =
                    build_messages(Only(chat_histories, handlers[k].chat_id),
                                   Only(system_prompts, handlers[k].chat_id),
                                   handlers[k].chat_id, handlers[k].user_text)

\* C10: a step of a handler of chat A leaves the history and the
\* instruction of every other chat as they are, and the list assembled for
\* A is made of what is stored for A alone.
C10_Isolation == [][C10_Step]_vars /\ []C10_Assembled

\* a request is assembled for one chat while another chat has a history
C10_Witness ==
    \E k \in DOMAIN handlers, b \in ChatIds :
        /\ handlers[k].pc = "call"
        /\ b # handlers[k].chat_id
        /\ b \in DOMAIN chat_histories

\* the lengths of the texts cs
Lengths(cs) == [i \in 1..Len(cs) |-> Len(cs[i])]

\* while the reply of a message is being delivered, the chunks sent so far
\* followed by the chunks still to send are the chunking of the reply
C11_During ==
    \A k \in DOMAIN handlers :
        LET h == handlers[k]
        IN  IsRelay(h) /\ h.pc = "reply" =>
              /\ IsChunking(h.sent \o h.chunks, h.reply)
              /\ Len(h.reply) = 8000 =>
                     Lengths(h.sent \o h.chunks) = << 3900, 3900, 200 >>

\* the chunks are sent one at a time from the front of the list, and the
\* handler ends only when none is left
C11_Step ==
    \A k \in DOMAIN handlers :
        LET h == handlers[k]
        IN  IsRelay(h) =>
              /\ k \in DOMAIN handlers' /\ handlers'[k].sent # h.sent =>
                    LET cs == IF h.pc = "split" THEN handlers'[k].sent \o handlers'[k].chunks
                              ELSE h.chunks
                    IN  /\ cs # << >>
                        /\ handlers'[k].sent = Append(h.sent, cs[1])
                        /\ handlers'[k].chunks = Tail(cs)
              /\ k \notin DOMAIN handlers' =>
                    \/ h.pc = "reply" /\ h.chunks = << >>
                    \/ h.pc = "split" /\ h.reply = ""

\* C11: the reply of a message is split into consecutive chunks of 3900
\* characters: every chunk has at most 3900 characters, every chunk but the
\* last has exactly 3900, the chunks are sent in their order, their
\* concatenation is the reply, and a reply of 8000 characters gives three
\* chunks of 3900, 3900 and 200 characters.
C11_Chunks == []C11_During /\ [][C11_Step]_vars

\* the three chunks of a reply of 8000 characters have been sent
C11_Witness ==
    \E k \in DOMAIN handlers :
        /\ Len(handlers[k].reply) = 8000
        /\ Lengths(handlers[k].sent) = << 3900, 3900, 200 >>
        /\ handlers[k].chunks = << >>

\* a step that appends a turn to some history
Appending == \E c \in ChatIds : Len(appended'[c]) = Len(appended[c]) + 1

C12_Step ==
    /\ Dispatching("clear_history") \/ Appending =>
          system_prompts' = system_prompts
    /\ Dispatching("setprompt") \/ Dispatching("clearprompt") =>
          chat_histories' = chat_histories
    /\ Dispatching("start") \/ Dispatching("help_cmd") =>
          /\ chat_histories' = chat_histories
          /\ system_prompts' = system_prompts

\* C12: the history and the system prompt of a chat are independent:
\* /clear and every append leave the prompts as they are, /setprompt and
\* /clearprompt leave the histories as they are, and /start and /help
\* change neither.
C12_Independent == [][C12_Step]_vars

\* one chat has a history and no prompt, another a prompt and no history
C12_Witness ==
    \E c, d \in ChatIds :
        /\ c \in DOMAIN chat_histories /\ c \notin DOMAIN system_prompts
        /\ d \in DOMAIN system_prompts /\ d \notin DOMAIN chat_histories

\* the step is a call of build_messages for the chat c
Assembling(c) ==
    /\ 1 \in DOMAIN handlers'
    /\ handlers'[1].name = "build_messages"
    /\ handlers'[1].chat_id = c

C13_Step ==
    \A c \in ChatIds :
        Assembling(c) =>
          /\ chat_histories' = chat_histories
          /\ system_prompts' = system_prompts
          /\ c \notin DOMAIN chat_histories => c \notin DOMAIN chat_histories'
          /\ c \notin DOMAIN chat_histories /\ c \notin DOMAIN system_prompts =>
                handlers'[1].messages =
                    << [role |-> "user", content |-> handlers'[1].user_text] >>

\* C13: build_messages only reads the store: called for a chat with or
\* without a history it changes no history and no system prompt, and it
\* makes no empty history for a chat that had none.
C13_Pure == [][C13_Step]_vars

\* build_messages has been called for a chat without a history while
\* another chat has one
C13_Witness ==
    /\ 1 \in DOMAIN handlers
    /\ handlers[1].name = "build_messages"
    /\ handlers[1].chat_id \notin DOMAIN chat_histories
    /\ handlers[1].messages # << >>
    /\ chat_histories # EmptyDict

\* C14: the user turn is recorded before the request is assembled, so the
\* message list sent to the completion call ends with the same entry
\* {role user, content t} twice, the last entry of the history and the new
\* message, and it has at most 14 entries: a system entry if a prompt is
\* set, at most 12 entries of history and the new message.
C14_SentTwice ==
    \A k \in DOMAIN handlers :
        LET h == handlers[k]
            m == h.messages
            n == Len(m)
            history == History(h.chat_id)
        IN  IsRelay(h) /\ h.pc = "call" =>
              /\ n >= 2
              /\ m[n] = [role |-> "user", content |-> h.user_text]
              /\ m[n - 1] = m[n]
              /\ history # << >> /\ m[n - 1] = history[Len(history)]
              /\ n <= 14
              /\ n = (IF h.chat_id \in DOMAIN system_prompts THEN 1 ELSE 0)
                        + Len(history) + 1
              /\ Len(history) <= 12

\* a request of 14 entries is about to be sent
C14_Witness ==
    \E k \in DOMAIN handlers :
        /\ handlers[k].pc = "call"
        /\ Len(handlers[k].messages) = 14
        /\ handlers[k].messages[1].role = "system"

Last(s) == s[Len(s)]

\* from the recording of its user turn to the recording of its reply a
\* handler keeps the event loop, and its user turn stays the last turn of
\* its chat
C15_Between ==
    \A k \in DOMAIN handlers :
        LET h == handlers[k]
            log == appended[h.chat_id]
            history == History(h.chat_id)
        IN  IsRelay(h) /\ h.pc \in {"build", "call", "save"} =>
              /\ running = k
              /\ log # << >> /\ Last(log) = UserTurn(h)
              /\ history # << >> /\ Last(history) = UserTurn(h)

\* while a handler keeps the event loop no update is dispatched, no other
\* handler moves, and the store changes only by the handler's own reply
C15_Step ==
    \A k \in DOMAIN handlers :
        running = k =>
          /\ updates' = updates
          /\ \A j \in (DOMAIN handlers) \ {k} :
                j \in DOMAIN handlers' /\ handlers'[j].pc = handlers[j].pc
          /\ system_prompts' = system_prompts
          /\ chat_histories' # chat_histories \/ appended' # appended =>
                /\ handlers[k].pc = "save"
                /\ appended' = [appended EXCEPT ![handlers[k].chat_id] =
                       Append(@, Turn("assistant", handlers[k].reply))]

\* the reply r is the answer rn to the message m = mn
Answers(r, m) ==
    /\ SubSeq(m, 1, 1) = "m"
    /\ SubSeq(r, 1, 1) = "r"
    /\ SubSeq(r, 2, Len(r)) = SubSeq(m, 2, Len(m))

\* every assistant turn of a log comes right after the user turn it answers
C15_Pairs ==
    \A c \in ChatIds :
        \A i \in DOMAIN appended[c] :
            appended[c][i].role = "assistant" =>
              /\ i >= 2
              /\ appended[c][i - 1].role = "user"
              /\ Answers(appended[c][i].content, appended[c][i - 1].content)

\* C15: between the recording of the user turn and the recording of the
\* reply handle_message never gives up the event loop, so no other handler
\* changes the store in between: in the log of a chat every assistant turn
\* comes right after the user turn it answers, and neither /clear nor a
\* second message of the chat takes effect between the two.
C15_Atomic == []C15_Between /\ []C15_Pairs /\ [][C15_Step]_vars

\* after a /clear, a reply has been recorded right after its user turn
\* while a second message of the chat was waiting to record its own
C15_Witness ==
    \E k, l \in DOMAIN handlers :
        /\ handlers[k].pc = "split"
        /\ IsRelay(handlers[l]) /\ handlers[l].pc = "typing"
        /\ handlers[l].chat_id = handlers[k].chat_id
        /\ l < k
        /\ clears > 0
        /\ Len(appended[handlers[k].chat_id]) >= 2
        /\ Last(appended[handlers[k].chat_id]) = Turn("assistant", handlers[k].reply)

\* ceil(n / d)
Ceil(n, d) == (n + d - 1) \div d

\* the completion call of h returned content that is empty once trimmed
EmptyAnswer(h) == h.outcome.kind = "content" /\ Strip(h.outcome.text) = ""

\* while the chunks are sent, the chunks sent and the chunks to send are
\* ceil(len(reply) / 3900) together, and at least one after a failed call
C16_During ==
    \A k \in DOMAIN handlers :
        LET h == handlers[k]
        IN  IsRelay(h) /\ h.pc = "reply" =>
              /\ Len(h.sent) + Len(h.chunks) = Ceil(Len(h.reply), 3900)
              /\ Len(h.sent) >= 1
              /\ ~EmptyAnswer(h)

\* when handle_message ends it has sent ceil(len(reply) / 3900) chunks:
\* none after an answer that is empty once trimmed, the empty assistant
\* turn being the last of the history, and one or more after a failed call
C16_AtEnd ==
    \A k \in (DOMAIN handlers) \ (DOMAIN handlers') :
        LET h == handlers[k]
            history == History(h.chat_id)
        IN  IsRelay(h) =>
              /\ h.chunks = << >>
              /\ Len(h.sent) = Ceil(Len(h.reply), 3900)
              /\ EmptyAnswer(h) =>
                    /\ h.pc = "split" /\ h.sent = << >>
                    /\ history # << >>
                    /\ Last(history) = [role |-> "assistant", content |-> ""]
                    /\ Last(appended[h.chat_id]) = Last(history)
              /\ Failed(h) => h.pc = "reply" /\ Len(h.sent) >= 1
              /\ h.pc = "split" => EmptyAnswer(h)

\* C16: handle_message sends ceil(len(reply) / 3900) chunks: when the
\* completion call returns content that is empty after trimming, no chunk
\* is sent although an assistant turn with the empty text is recorded in
\* the history, and after a failed call at least one chunk is sent.
C16_ChunkCount == []C16_During /\ [][C16_AtEnd]_vars

\* a handler has ended without a message to the user: the last turn of its
\* chat is the empty assistant turn and no handler of the chat is left
C16_Witness ==
    \E c \in ChatIds :
        /\ History(c) # << >>
        /\ Last(History(c)) = [role |-> "assistant", content |-> ""]
        /\ \A k \in DOMAIN handlers : handlers[k].chat_id # c

====
